---------------------------- MODULE Spec2Model ----------------------------
(***************************************************************************)
(* A model of src/main.py: an EPD test-suite runner that splits the unique *)
(* positions of a suite into chunks, analyses every chunk in its own       *)
(* worker process with its own UCI engine, merges the workers' partial     *)
(* move maps, scores the moves against the suite and maintains the         *)
(* cross-run leaderboard points.csv.                                       *)
(*                                                                         *)
(* Conventions.  A Python str that the code inspects (an id, an option)    *)
(* is a sequence of one-character strings; a str that the code only        *)
(* compares (a uci move, an engine name) is a TLA+ string.  A Python       *)
(* Optional[str] is <<>> for None and <<s>> for the str s.  A Python dict  *)
(* is the sequence of its <<key, value>> items in insertion order.  A FEN  *)
(* is a natural number.                                                    *)
(***************************************************************************)
EXTENDS Integers, Sequences, FiniteSets, TLC

VARIABLES
    pc,               \* position of the orchestrating process
    df,               \* the parsed suite: one row per (position, scored move)
    fens_to_analyze,  \* run_analysis: the list of positions
    num_workers,      \* run_analysis: the worker count
    custom_options,   \* run_analysis: the "Name=Value" option strings
    fen_chunks,       \* run_analysis: create_chunks' result
    wpc,              \* per worker: position in analyze_chunk
    engine,           \* per worker: whether the local `engine` is bound
    opt_i,            \* per worker: index of the next option (0-based)
    fen_i,            \* per worker: index of the next position (0-based)
    chunk_results,    \* per worker: the dict chunk_results
    configured,       \* per worker: the {name: value} passed to engine.configure
    warnings,         \* per worker: the warnings printed, in order
    caught,           \* per worker: where the exception of line 73 came from
    quits,            \* per worker: the number of engine.quit() calls
    searched,         \* per worker: the positions passed to engine.analyse
    consumed,         \* run_analysis: the futures as_completed has yielded
    engine_moves,     \* run_analysis: the dict engine_moves
    score_i,          \* calculate_scores: index of the next item (0-based)
    total_points,     \* calculate_scores: the running total
    suite_scores,     \* calculate_scores: the defaultdict suite_scores
    results_data,     \* calculate_scores: the detail rows
    warnings_data,    \* calculate_scores: the warning rows
    details_csv,      \* the rows of <engine>_details.csv, <<>> before it is written
    engine_name,      \* main: args.engine_name
    move_time,        \* main: args.movetime
    epd_filepath,     \* main: args.epd_file, as the list of its path components
    main_engine,      \* main: whether its local `engine` holds a started engine
    main_quits,       \* main: the number of engine.quit() calls of lines 303-305
    summary_csv,      \* the rows of <engine>_summary.csv, <<>> before it is written
    points_csv,       \* the file points.csv: whether it exists, and its rows
    csv_before,       \* history: points.csv as it was when the run began
    rpc,              \* per run: position in the leaderboard update
    new_row_data,     \* per run: the dict new_row_data
    points_df         \* per run: the DataFrame points_df

workerVars == <<wpc, engine, opt_i, fen_i, chunk_results, configured,
                warnings, caught, quits, searched>>
inputVars == <<df, fens_to_analyze, num_workers, custom_options, engine_name,
               move_time, epd_filepath, main_engine, main_quits>>
scoreVars == <<score_i, total_points, suite_scores, results_data,
               warnings_data, details_csv>>
reportVars == <<summary_csv, points_csv, csv_before, rpc, new_row_data,
                points_df>>
vars == <<pc, inputVars, fen_chunks, workerVars, consumed, engine_moves,
          scoreVars, reportVars>>

-----------------------------------------------------------------------------
(* Bounds *)

\* SpecChunks: the longest list and the largest worker count tried.
MaxChunkLen == 9
MaxChunkWorkers == 6

\* Spec: the most records of a suite and the most workers of a run.
MaxRecords == 3
MaxWorkers == 2

\* SpecScore: the most records of a suite and the most items of engine_moves.
MaxScoreRecords == 2
MaxScoreItems == 2

\* SpecOptions: the most option strings of a run.
MaxOptions == 3

\* SpecMain: the most records of a suite file and the most workers of a run.
MaxMainRecords == 2
MaxMainWorkers == 2

-----------------------------------------------------------------------------
(* Python helpers *)

\* The smaller of two integers.
Min(a, b) == IF a < b THEN a ELSE b

\* The slice mutated: s[0 : b - a], the right length from the wrong place.
SliceFromStart(s, a, b) == [k \in 1..(Min(b, Len(s)) - a) |-> s[k]]

\* s[a : b] of a Python list, a and b 0-based and non-negative: the slice
\* stops at the end of the list instead of failing.
Slice(s, a, b) ==
    LET hi == Min(b, Len(s))
    IN  IF a >= hi THEN <<>> ELSE [k \in 1..(hi - a) |-> s[a + k]]

\* The lists of at most n elements of S.
SeqsUpTo(S, n) == UNION {[1..k -> S] : k \in 0..n}

\* Whether no element occurs twice in the list s.
IsInjective(s) == \A i, j \in 1..Len(s) : s[i] = s[j] => i = j

RECURSIVE Unique(_, _)
\* pandas' Series.unique(): the distinct values in order of first
\* appearance; `seen` holds the values taken so far.
Unique(s, seen) ==
    IF s = <<>> THEN seen
    ELSE Unique(Tail(s),
                IF \E k \in 1..Len(seen) : seen[k] = s[1]
                THEN seen ELSE Append(seen, s[1]))

RECURSIVE SumSeq(_)
\* sum() of a list of integers.
SumSeq(s) == IF s = <<>> THEN 0 ELSE s[1] + SumSeq(Tail(s))

RECURSIVE Concat(_)
\* The concatenation of a list of lists.
Concat(ss) == IF ss = <<>> THEN <<>> ELSE ss[1] \o Concat(Tail(ss))

-----------------------------------------------------------------------------
(* create_chunks *)

\* The extra item of chunk i (0-based), mutated: the trailing chunks take it.
ChunkExtraTrailing(i, num_chunks, remainder) ==
    IF i >= num_chunks - remainder THEN 1 ELSE 0

\* (1 if i < remainder else 0): the extra item of chunk i (0-based).
ChunkExtra(i, num_chunks, remainder) == IF i < remainder THEN 1 ELSE 0

RECURSIVE ChunkLoop(_, _, _, _, _)
\* The for loop of create_chunks from iteration i on.
ChunkLoop(data_list, num_chunks, i, chunks, current_index) ==
    IF i >= num_chunks THEN chunks
    ELSE LET base_chunk_size == Len(data_list) \div num_chunks
             remainder == Len(data_list) % num_chunks
             chunk_size == base_chunk_size + ChunkExtra(i, num_chunks, remainder)
         IN  ChunkLoop(data_list, num_chunks, i + 1,
                       Append(chunks, Slice(data_list, current_index,
                                            current_index + chunk_size)),
                       current_index + chunk_size)

\* create_chunks(data_list, num_chunks), num_chunks >= 1.
create_chunks(data_list, num_chunks) ==
    IF data_list = <<>> THEN <<>>
    ELSE ChunkLoop(data_list, num_chunks, 0, <<>>, 0)

-----------------------------------------------------------------------------
(* analyze_chunk: one worker process per chunk, worker_id = 1, 2, ...      *)
(* The engine is the environment: each call of it returns or raises.  The  *)
(* UCI log (enable_uci_log) only writes log files and is left out.         *)

\* The worker ids of the submitted chunks: enumerate(fen_chunks, 1).
Workers == 1..Len(fen_chunks)

\* No worker exists.
NoWorkers ==
    /\ wpc = <<>>
    /\ engine = <<>>
    /\ opt_i = <<>>
    /\ fen_i = <<>>
    /\ chunk_results = <<>>
    /\ configured = <<>>
    /\ warnings = <<>>
    /\ caught = <<>>
    /\ quits = <<>>
    /\ searched = <<>>

\* "=" in option_str
HasEq(option_str) == \E k \in 1..Len(option_str) : option_str[k] = "="

\* option_str.split("=", 1) of a string that holds "=": <<name, value>>.
SplitEq(option_str) ==
    LET k == CHOOSE j \in 1..Len(option_str) :
                 /\ option_str[j] = "="
                 /\ \A h \in 1..(j - 1) : option_str[h] # "="
    IN  <<SubSeq(option_str, 1, k - 1), SubSeq(option_str, k + 1, Len(option_str))>>

RECURSIVE LStrip(_)
\* s.lstrip()
LStrip(s) == IF s # <<>> /\ s[1] = " " THEN LStrip(Tail(s)) ELSE s

RECURSIVE RStrip(_)
\* s.rstrip()
RStrip(s) ==
    IF s # <<>> /\ s[Len(s)] = " " THEN RStrip(SubSeq(s, 1, Len(s) - 1)) ELSE s

\* s.strip()
Strip(s) == RStrip(LStrip(s))

\* d[k] = v on a dict: a new key is appended, an old key keeps its place.
DictSet(d, k, v) ==
    IF \E j \in 1..Len(d) : d[j][1] = k
    THEN [j \in 1..Len(d) |-> IF d[j][1] = k THEN <<k, v>> ELSE d[j]]
    ELSE Append(d, <<k, v>>)

\* list(d.keys())
DictKeys(d) == [j \in 1..Len(d) |-> d[j][1]]

\* k in d
DictHas(d, k) == \E j \in 1..Len(d) : d[j][1] = k

\* d[k], for k in d
DictGet(d, k) == d[CHOOSE j \in 1..Len(d) : d[j][1] = k][2]

\* The try body mutated: the position loop ends after its first position.
TryBodyPcFirstOnly(w, oi, fi) ==
    IF oi < Len(custom_options) THEN "configure"
    ELSE IF fi < Min(1, Len(fen_chunks[w])) THEN "analyse"
    ELSE "finally"

\* Where the try body of analyze_chunk continues, the option loop being at
\* option oi and the position loop at position fi of worker w's chunk.
TryBodyPc(w, oi, fi) ==
    IF oi < Len(custom_options) THEN "configure"
    ELSE IF fi < Len(fen_chunks[w]) THEN "analyse"
    ELSE "finally"

\* engine = chess.engine.SimpleEngine.popen_uci(engine_path): the engine
\* starts, or the call raises and the except clause catches it.
PopenUci(w) ==
    /\ wpc[w] = "popen_uci"
    /\ \E started \in BOOLEAN :
           IF started
           THEN /\ engine' = [engine EXCEPT ![w] = TRUE]
                /\ wpc' = [wpc EXCEPT ![w] = TryBodyPc(w, 0, 0)]
                /\ UNCHANGED caught
           ELSE /\ caught' = [caught EXCEPT ![w] = "popen_uci"]
                /\ wpc' = [wpc EXCEPT ![w] = "finally"]
                /\ UNCHANGED engine
    /\ UNCHANGED <<pc, inputVars, fen_chunks, opt_i, fen_i, chunk_results,
                   configured, warnings, quits, searched, consumed,
                   engine_moves, scoreVars, reportVars>>

\* Where a worker goes on after engine.configure raised at option oi,
\* mutated: the exception leaves the try body, to the finally clause.
AbortAfterRejected(w, oi) == "finally"

\* Where a worker goes on after engine.configure raised at option oi
\* (0-based): the inner except clause prints a warning, the loop goes on.
AfterRejected(w, oi) == TryBodyPc(w, oi + 1, 0)

\* One iteration of the option loop: a string with "=" is split, stripped
\* and passed to engine.configure, whose exception is caught and printed as a
\* warning; a string without "=" is only warned about.
Configure(w) ==
    /\ wpc[w] = "configure"
    /\ LET option_str == custom_options[opt_i[w] + 1]
       IN  IF HasEq(option_str)
           THEN LET name == SplitEq(option_str)[1]
                    value == SplitEq(option_str)[2]
                IN  /\ configured' = [configured EXCEPT
                           ![w] = Append(@, <<Strip(name), Strip(value)>>)]
                    /\ \E accepted \in BOOLEAN :
                           IF accepted
                           THEN /\ UNCHANGED warnings
                                /\ wpc' = [wpc EXCEPT
                                       ![w] = TryBodyPc(w, opt_i[w] + 1, 0)]
                           ELSE /\ warnings' = [warnings EXCEPT ![w] =
                                       Append(@, <<"Could not set option", name>>)]
                                /\ wpc' = [wpc EXCEPT
                                       ![w] = AfterRejected(w, opt_i[w])]
           ELSE /\ warnings' = [warnings EXCEPT ![w] =
                       Append(@, <<"Ignoring invalid option format", option_str>>)]
                /\ wpc' = [wpc EXCEPT ![w] = TryBodyPc(w, opt_i[w] + 1, 0)]
                /\ UNCHANGED configured
    /\ opt_i' = [opt_i EXCEPT ![w] = @ + 1]
    /\ UNCHANGED <<pc, inputVars, fen_chunks, engine, fen_i, chunk_results,
                   caught, quits, searched, consumed, engine_moves,
                   scoreVars, reportVars>>

\* The first moves an engine may report.
EngineMoves == {"e2e4"}

\* chunk_results after the except clause, mutated: the position that
\* failed is recorded as None.
ErrorRecorded(results, fen) == DictSet(results, fen, <<>>)

\* chunk_results after the except clause caught the error of position
\* `fen`: the clause only logs, the dict is as the loop left it.
OnAnalyseError(results, fen) == results

\* Where a worker goes on after the except clause, mutated: the loop is
\* entered again, once, at the position that failed.
RetryAfterCatch(w) == IF caught[w] = "" THEN "analyse" ELSE "finally"

\* Where a worker goes on after the except clause caught an error of the
\* position loop: the try statement is left, the finally clause runs.
AfterCatch(w) == "finally"

\* One iteration of the position loop: the position is passed to
\* engine.analyse, which returns a line whose first move is stored, or no
\* line and None is stored, or raises and the except clause ends the loop.
\* (chess.Board(fen) takes a FEN that board.fen() made, and does not raise.)
Analyse(w) ==
    /\ wpc[w] = "analyse"
    /\ searched' = [searched EXCEPT
           ![w] = Append(@, fen_chunks[w][fen_i[w] + 1])]
    /\ LET fen == fen_chunks[w][fen_i[w] + 1]
       IN  \/ \E best \in {<<m>> : m \in EngineMoves} \cup {<<>>} :
                 /\ chunk_results' = [chunk_results EXCEPT
                        ![w] = DictSet(@, fen, best)]
                 /\ fen_i' = [fen_i EXCEPT ![w] = @ + 1]
                 /\ wpc' = [wpc EXCEPT
                        ![w] = TryBodyPc(w, Len(custom_options), fen_i[w] + 1)]
                 /\ UNCHANGED caught
           \/ /\ caught' = [caught EXCEPT ![w] = "analyse"]
              /\ wpc' = [wpc EXCEPT ![w] = AfterCatch(w)]
              /\ chunk_results' = [chunk_results EXCEPT
                     ![w] = OnAnalyseError(@, fen)]
              /\ UNCHANGED fen_i
    /\ UNCHANGED <<pc, inputVars, fen_chunks, engine, opt_i, configured,
                   warnings, quits, consumed, engine_moves, scoreVars,
                   reportVars>>

\* The guard of engine.quit(), mutated: quit is the last statement of the
\* try body, reached only when nothing was caught.
QuitOnSuccess(w) == engine[w] /\ caught[w] = ""

\* The guard of engine.quit(), mutated: the finally clause has no guard.
QuitAlways(w) == TRUE

\* Whether the finally clause calls engine.quit(): 'engine' in locals().
QuitGuard(w) == engine[w]

\* The finally clause and the return: engine.quit() is called when the
\* local `engine` is bound; it returns and the worker returns
\* chunk_results, or it raises and the worker ends with that exception.
Finally(w) ==
    /\ wpc[w] = "finally"
    /\ IF QuitGuard(w)
       THEN /\ quits' = [quits EXCEPT ![w] = @ + 1]
            /\ \E quit_ok \in BOOLEAN :
                   wpc' = [wpc EXCEPT
                       ![w] = IF quit_ok THEN "returned" ELSE "raised"]
       ELSE /\ wpc' = [wpc EXCEPT ![w] = "returned"]
            /\ UNCHANGED quits
    /\ UNCHANGED <<pc, inputVars, fen_chunks, engine, opt_i, fen_i,
                   chunk_results, configured, warnings, caught, searched,
                   consumed, engine_moves, scoreVars, reportVars>>

\* A step of worker w.
analyze_chunk(w) ==
    \/ PopenUci(w)
    \/ Configure(w)
    \/ Analyse(w)
    \/ Finally(w)

-----------------------------------------------------------------------------
(* parse_epd_file: the suite as a DataFrame *)

\* The rows one EPD record contributes: one per scored move, each with the
\* record's fen and id (the DataFrame of lines 97-103).
RecordRows(rec) ==
    [k \in 1..Len(rec.uci_move) |->
        [uci_move |-> rec.uci_move[k], points |-> rec.points[k],
         fen |-> rec.fen, id |-> rec.id]]

\* pd.concat(dfs_list, ignore_index=True) over the records' DataFrames.
ParsedDf(records) == Concat([k \in 1..Len(records) |-> RecordRows(records[k])])

\* The list of positions mutated: each FEN is written another way than
\* in the DataFrame (position p as 100 + p).
UniqueFensRewritten(suite) ==
    [k \in 1..Len(Unique([j \in 1..Len(suite) |-> suite[j].fen], <<>>)) |->
        100 + Unique([j \in 1..Len(suite) |-> suite[j].fen], <<>>)[k]]

\* list(parsed_df['fen'].unique())
UniqueFens(suite) == Unique([k \in 1..Len(suite) |-> suite[k].fen], <<>>)

-----------------------------------------------------------------------------
(* run_analysis *)

\* The merge mutated: engine_moves = chunk_result.
DictReplace(d, other) == other

RECURSIVE DictUpdate(_, _)
\* d.update(other)
DictUpdate(d, other) ==
    IF other = <<>> THEN d
    ELSE DictUpdate(DictSet(d, other[1][1], other[1][2]), Tail(other))

\* create_chunks and the submit loop: one future per chunk, each running
\* analyze_chunk(chunk, worker_id, ...) in a process of the pool.
Submit ==
    /\ pc = "run_analysis"
    /\ LET chunks == create_chunks(fens_to_analyze, num_workers)
           ws == 1..Len(chunks)
       IN  /\ fen_chunks' = chunks
           /\ wpc' = [w \in ws |-> "popen_uci"]
           /\ engine' = [w \in ws |-> FALSE]
           /\ opt_i' = [w \in ws |-> 0]
           /\ fen_i' = [w \in ws |-> 0]
           /\ chunk_results' = [w \in ws |-> <<>>]
           /\ configured' = [w \in ws |-> <<>>]
           /\ warnings' = [w \in ws |-> <<>>]
           /\ caught' = [w \in ws |-> ""]
           /\ quits' = [w \in ws |-> 0]
           /\ searched' = [w \in ws |-> <<>>]
    /\ engine_moves' = <<>>
    /\ pc' = "as_completed"
    /\ UNCHANGED <<inputVars, consumed, scoreVars, reportVars>>

\* One iteration of the as_completed loop: a finished future is yielded;
\* future.result() is the worker's dict, merged with engine_moves.update,
\* or re-raises the worker's exception, which run_analysis does not catch.
AsCompleted(w) ==
    /\ pc = "as_completed"
    /\ w \notin consumed
    /\ wpc[w] \in {"returned", "raised"}
    /\ consumed' = consumed \cup {w}
    /\ IF wpc[w] = "returned"
       THEN /\ engine_moves' = DictUpdate(engine_moves, chunk_results[w])
            /\ UNCHANGED pc
       ELSE /\ pc' = "raised"
            /\ UNCHANGED engine_moves
    /\ UNCHANGED <<inputVars, fen_chunks, workerVars, scoreVars, reportVars>>

\* The as_completed loop ends when every future has been yielded:
\* run_analysis returns engine_moves.
Return ==
    /\ pc = "as_completed"
    /\ consumed = Workers
    /\ pc' = "calculate_scores"
    /\ UNCHANGED <<inputVars, fen_chunks, workerVars, consumed, engine_moves,
                   scoreVars, reportVars>>

-----------------------------------------------------------------------------
(* calculate_scores *)

\* The decimal digits, "0" first.
Digits == <<"0", "1", "2", "3", "4", "5", "6", "7", "8", "9">>

\* Whether the character c is a digit.
IsDigit(c) == \E d \in 1..10 : Digits[d] = c

\* int(c) of a digit character.
DigitVal(c) == (CHOOSE d \in 1..10 : Digits[d] = c) - 1

RECURSIVE FindDigitRuns(_, _, _)
\* [int(r) for r in re.findall(r'\d+', s)]: the maximal digit runs of s,
\* left to right, as integers; `run` is <<>> outside a run and <<n>> inside
\* a run whose digits so far read n.
FindDigitRuns(s, run, found) ==
    IF s = <<>> THEN found \o run
    ELSE IF IsDigit(s[1])
         THEN FindDigitRuns(Tail(s),
                            <<(IF run = <<>> THEN 0 ELSE run[1] * 10)
                                  + DigitVal(s[1])>>,
                            found)
         ELSE FindDigitRuns(Tail(s), <<>>, found \o run)

\* version_sort_key(row): the digit runs of the row's id.
version_sort_key(row) == FindDigitRuns(row[1], <<>>, <<>>)

RECURSIVE ListLess(_, _)
\* a < b of two Python lists of integers.
ListLess(a, b) ==
    IF b = <<>> THEN FALSE
    ELSE IF a = <<>> THEN TRUE
    ELSE IF a[1] # b[1] THEN a[1] < b[1]
    ELSE ListLess(Tail(a), Tail(b))

RECURSIVE DigitByDigit(_)
\* The sort key mutated: every digit of the id on its own, as text order
\* reads them ("10" before "2").
DigitByDigit(s) ==
    IF s = <<>> THEN <<>>
    ELSE (IF IsDigit(s[1]) THEN <<DigitVal(s[1])>> ELSE <<>>) \o DigitByDigit(Tail(s))

\* The sort key mutated, of a row.
TextSortKey(row) == DigitByDigit(row[1])

\* The key results_data.sort orders by.
ResultsSortKey(row) == version_sort_key(row)

RECURSIVE InsertRow(_, _)
\* The sorted list `sorted` with `row` put behind every row that is not
\* greater than it.
InsertRow(sorted, row) ==
    IF sorted = <<>> THEN <<row>>
    ELSE IF ListLess(ResultsSortKey(row), ResultsSortKey(sorted[1]))
         THEN <<row>> \o sorted
         ELSE <<sorted[1]>> \o InsertRow(Tail(sorted), row)

RECURSIVE SortRows(_, _)
\* rows.sort(key=version_sort_key): a stable sort, so rows of equal key
\* keep their order; `sorted` holds the rows taken so far.
SortRows(rows, sorted) ==
    IF rows = <<>> THEN sorted
    ELSE SortRows(Tail(rows), InsertRow(sorted, rows[1]))

RECURSIVE SplitSpaceFirst(_)
\* s.split(' ', 1)[0]: s up to its first blank.
SplitSpaceFirst(s) ==
    IF s = <<>> \/ s[1] = " " THEN <<>>
    ELSE <<s[1]>> \o SplitSpaceFirst(Tail(s))

\* The rows of the suite whose fen is `fen`: a group of df.groupby('fen').
Group(suite, fen) == SelectSeq(suite, LAMBDA r : r.fen = fen)

\* fen in epd_data_lookup
HasPosition(suite, fen) == \E k \in 1..Len(suite) : suite[k].fen = fen

\* epd_data_lookup[fen]: the id of the group's first row and the
\* (uci_move, points) pairs of its rows, in row order.
epd_data_lookup(suite, fen) ==
    LET group == Group(suite, fen)
    IN  [id |-> group[1].id,
         scored_moves |-> [k \in 1..Len(group) |->
                              <<group[k].uci_move, group[k].points>>]]

\* move == engine_best_move, of a str and an Optional[str].
MoveEq(move, engine_best_move) == engine_best_move = <<move>>

RECURSIVE LastMatch(_, _, _)
\* The award loop mutated: no break, the last matching entry wins.
LastMatch(scored_moves_list, engine_best_move, awarded) ==
    IF scored_moves_list = <<>> THEN awarded
    ELSE LastMatch(Tail(scored_moves_list), engine_best_move,
                   IF MoveEq(scored_moves_list[1][1], engine_best_move)
                   THEN scored_moves_list[1][2] ELSE awarded)

RECURSIVE AwardedPoints(_, _, _)
\* The award loop: awarded_points starts as `awarded` (0) and takes the
\* points of the first entry whose move equals the engine's, then breaks.
AwardedPoints(scored_moves_list, engine_best_move, awarded) ==
    IF scored_moves_list = <<>> THEN awarded
    ELSE IF MoveEq(scored_moves_list[1][1], engine_best_move)
         THEN scored_moves_list[1][2]
         ELSE AwardedPoints(Tail(scored_moves_list), engine_best_move, awarded)

\* The accumulation mutated: suite_scores[suite_id] = awarded_points.
DictOverwrite(d, k, n) == DictSet(d, k, n)

\* suite_scores[suite_id] += awarded_points on a defaultdict(int).
DictAdd(d, k, n) == DictSet(d, k, (IF DictHas(d, k) THEN DictGet(d, k) ELSE 0) + n)

\* The running total mutated: total_points = awarded_points.
SetTotal(total, awarded_points) == awarded_points

\* total_points += awarded_points
AddTotal(total, awarded_points) == total + awarded_points

\* The `if not position_data` branch mutated: the position is also
\* counted, with 0 points, under the empty suite id.
ScoreMissingCounted(acc, fen) ==
    [acc EXCEPT
        !.warnings_data = Append(@, <<"WARNING: FEN not found", fen, "", "", "">>),
        !.suite_scores = DictSet(@, <<>>, 0)]

\* The `if not position_data` branch: a warning row, then `continue`.
ScoreMissing(acc, fen) ==
    [acc EXCEPT !.warnings_data =
        Append(@, <<"WARNING: FEN not found", fen, "", "", "">>)]

\* One iteration of the scoring loop on the item (fen, engine_best_move),
\* acc holding total_points, suite_scores, results_data, warnings_data.
\* epd_moves_str is kept as the list of the (move, pts) it joins.
ScoreItem(suite, acc, fen, engine_best_move) ==
    IF ~HasPosition(suite, fen)
    THEN ScoreMissing(acc, fen)
    ELSE LET position_data == epd_data_lookup(suite, fen)
             position_id == position_data.id
             scored_moves_list == position_data.scored_moves
             awarded_points == AwardedPoints(scored_moves_list, engine_best_move, 0)
             suite_id == SplitSpaceFirst(position_id)
         IN  [acc EXCEPT
                 !.total_points = AddTotal(@, awarded_points),
                 !.suite_scores = DictAdd(@, suite_id, awarded_points),
                 !.results_data = Append(@, <<position_id, fen, engine_best_move,
                                              scored_moves_list, awarded_points>>)]

\* The state of calculate_scores before its loop.
ScoreStart ==
    [total_points |-> 0, suite_scores |-> <<>>, results_data |-> <<>>,
     warnings_data |-> <<>>]

\* calculate_scores has not run.
NoScores ==
    /\ score_i = 0
    /\ total_points = 0
    /\ suite_scores = <<>>
    /\ results_data = <<>>
    /\ warnings_data = <<>>
    /\ details_csv = <<>>

\* One iteration of `for fen, engine_best_move in engine_moves.items()`.
ScoreLoop ==
    /\ pc = "calculate_scores"
    /\ score_i < Len(engine_moves)
    /\ LET item == engine_moves[score_i + 1]
           acc == ScoreItem(df,
                            [total_points |-> total_points,
                             suite_scores |-> suite_scores,
                             results_data |-> results_data,
                             warnings_data |-> warnings_data],
                            item[1], item[2])
       IN  /\ total_points' = acc.total_points
           /\ suite_scores' = acc.suite_scores
           /\ results_data' = acc.results_data
           /\ warnings_data' = acc.warnings_data
    /\ score_i' = score_i + 1
    /\ UNCHANGED <<pc, inputVars, fen_chunks, workerVars, consumed,
                   engine_moves, details_csv, reportVars>>

\* The header row of the details file.
DetailsHeader == <<"ID", "FEN", "EngineMove", "EPDMoves", "Points">>

\* After the loop: results_data is sorted, the details file is written
\* (header, detail rows, warning rows) and calculate_scores returns
\* total_points and suite_scores.
ScoreWrite ==
    /\ pc = "calculate_scores"
    /\ score_i = Len(engine_moves)
    /\ results_data' = SortRows(results_data, <<>>)
    /\ details_csv' = <<DetailsHeader>> \o results_data' \o warnings_data
    /\ pc' = "generate_reports"
    /\ UNCHANGED <<inputVars, fen_chunks, workerVars, consumed, engine_moves,
                   score_i, total_points, suite_scores, warnings_data,
                   reportVars>>

RECURSIVE ScoreAll(_, _, _)
\* The scoring loop as a whole, over the items of a dict.
ScoreAll(suite, acc, items) ==
    IF items = <<>> THEN acc
    ELSE ScoreAll(suite, ScoreItem(suite, acc, items[1][1], items[1][2]),
                  Tail(items))

\* calculate_scores(engine_name, moves, suite): what it returns and writes.
calculate_scores(moves, suite) ==
    LET acc == ScoreAll(suite, ScoreStart, moves)
        sorted == SortRows(acc.results_data, <<>>)
    IN  [total_points |-> acc.total_points,
         suite_scores |-> acc.suite_scores,
         results_data |-> sorted,
         details_csv |-> <<DetailsHeader>> \o sorted \o acc.warnings_data]

-----------------------------------------------------------------------------
(* generate_reports.  A percentage, which the code rounds to 2 decimals,   *)
(* is held in hundredths of a percent; a move time is held in seconds.     *)
(* The Engine, MTS and Description columns of the summary and the strength *)
(* and weakness files, which are cut from the summary, are left out.       *)

\* The distinct ids of the suite: df.drop_duplicates(subset=['id']).
DistinctIds(suite) == {suite[k].id : k \in 1..Len(suite)}

\* suite_totals.get(suite_id, 0): 100 times the number of distinct ids
\* whose part before the first blank is suite_id.
SuiteTotal(suite, suite_id) ==
    100 * Cardinality({i \in DistinctIds(suite) : SplitSpaceFirst(i) = suite_id})

\* sum(suite_totals.values())
GrandTotalPossible(suite) == 100 * Cardinality(DistinctIds(suite))

\* round((points / total) * 100.0, 2) if total > 0 else 0, in hundredths,
\* for points >= 0.  A total is 100 times a count of ids; with fewer than
\* 8 ids no quotient lies halfway between two hundredths, so that rounding
\* to the nearest one is all that round() does.
Pct(points, total) ==
    IF total > 0 THEN (2 * points * 10000 + total) \div (2 * total) ELSE 0

\* series.str.extract(r'(\d+)')[0].astype(int) of one suite id: its first
\* digit run, for an id that has one.
FirstNumber(suite_id) == FindDigitRuns(suite_id, <<>>, <<>>)[1]

\* Whether the summary lines 205-212 raise: an empty suite_scores gives a
\* frame without an 'Id' column (KeyError at line 209), and a suite id
\* without a digit gives NaN, which astype(int) rejects (line 212).
SummaryRaises(scores) ==
    \/ scores = <<>>
    \/ \E j \in 1..Len(scores) : FindDigitRuns(scores[j][1], <<>>, <<>>) = <<>>

\* One row of the summary: suite id, points, total and percentage.
SummaryRow(suite, item) ==
    [Id |-> item[1], Points |-> item[2],
     Total |-> SuiteTotal(suite, item[1]),
     Pct |-> Pct(item[2], SuiteTotal(suite, item[1]))]

RECURSIVE InsertSummary(_, _)
\* The sorted summary with `row` put behind every row whose number is not
\* greater.
InsertSummary(sorted, row) ==
    IF sorted = <<>> THEN <<row>>
    ELSE IF FirstNumber(row.Id) < FirstNumber(sorted[1].Id)
         THEN <<row>> \o sorted
         ELSE <<sorted[1]>> \o InsertSummary(Tail(sorted), row)

RECURSIVE SortSummary(_, _)
\* summary_df.sort_values(by='Id', key=...): ascending in the first number
\* of the suite id.
SortSummary(rows, sorted) ==
    IF rows = <<>> THEN sorted
    ELSE SortSummary(Tail(rows), InsertSummary(sorted, rows[1]))

\* The rows of the summary file, for suite_scores without SummaryRaises.
Summary(suite, scores) ==
    SortSummary([j \in 1..Len(scores) |-> SummaryRow(suite, scores[j])], <<>>)

\* os.path.basename(epd_filepath)
Basename(path) == path[Len(path)]

\* new_row_data: the run's leaderboard entry.  A str cell of a DataFrame
\* is <<s>>, a missing one (NaN) is <<>>.
NewRowData(name, mts, points, suite, path) ==
    [Engine |-> <<name>>, TFile |-> <<Basename(path)>>, MTS |-> mts,
     Points |-> points, Total |-> GrandTotalPossible(suite),
     Pct |-> Pct(points, GrandTotalPossible(suite))]

\* The cell texts pandas.read_csv takes for a missing value, among the
\* texts the model uses (its default na_values hold "", "NA", "null", ...).
NaValues == {"", "NA"}

\* read_csv of a text cell of a str column: a missing value or the str.
ReadText(text) == IF text \in NaValues THEN <<>> ELSE <<text>>

\* to_csv of a str cell: the str, and the empty text for a missing value.
WriteText(cell) == IF cell = <<>> THEN "" ELSE cell[1]

\* pd.read_csv of one row of points.csv.  A number is written by to_csv in
\* the shortest form that reads back as the same number: the numeric cells
\* are held as their numbers.
ReadRow(row) == [row EXCEPT !.Engine = ReadText(@), !.TFile = ReadText(@)]

\* to_csv of one row of the DataFrame.
WriteRow(row) == [row EXCEPT !.Engine = WriteText(@), !.TFile = WriteText(@)]

\* read_csv mutated: the rows of the file are not taken.
read_csv_empty(rows) == <<>>

\* pd.read_csv(overall_summary_csv) of an existing file.
read_csv(rows) == [k \in 1..Len(rows) |-> ReadRow(rows[k])]

\* DataFrame.to_csv(overall_summary_csv, index=False)
to_csv(frame) == [k \in 1..Len(frame) |-> WriteRow(frame[k])]

\* The suite file names of the model, in the order Python's str comparison
\* puts them.
FileNames == <<"a.epd", "b.epd", "c.epd">>

\* The place of a file name in FileNames.
NameRank(name) == CHOOSE k \in 1..Len(FileNames) : FileNames[k] = name

\* Whether TFile cell a sorts before TFile cell b: ascending, a missing
\* value last.
TFileLess(a, b) ==
    /\ a # <<>>
    /\ b = <<>> \/ NameRank(a[1]) < NameRank(b[1])

\* Whether row a comes before row b under by=['TFile', 'MTS', 'Pct'],
\* ascending=[True, True, False].
PointsLess(a, b) ==
    IF a.TFile # b.TFile THEN TFileLess(a.TFile, b.TFile)
    ELSE IF a.MTS # b.MTS THEN a.MTS < b.MTS
    ELSE a.Pct > b.Pct

RECURSIVE InsertPoints(_, _)
\* The sorted frame with `row` put behind every row that does not come
\* after it.
InsertPoints(sorted, row) ==
    IF sorted = <<>> THEN <<row>>
    ELSE IF PointsLess(row, sorted[1])
         THEN <<row>> \o sorted
         ELSE <<sorted[1]>> \o InsertPoints(Tail(sorted), row)

RECURSIVE SortPoints(_, _)
\* points_df.sort_values(by=[...], ascending=[...]).reset_index(drop=True):
\* rows that agree on the three columns keep their order.
SortPoints(frame, sorted) ==
    IF frame = <<>> THEN sorted
    ELSE SortPoints(Tail(frame), InsertPoints(sorted, frame[1]))

\* points.csv does not exist.
Absent == [exists |-> FALSE, rows |-> <<>>]

\* points.csv with the given rows.
File(rows) == [exists |-> TRUE, rows |-> rows]

\* The runs that update the leaderboard.
Runs == DOMAIN rpc

\* Lines 196-230 of generate_reports in the run of main: the summary is
\* built, sorted and written and new_row_data is made, or the summary
\* lines raise and main ends with the exception.
GenerateReports ==
    /\ pc = "generate_reports"
    /\ IF SummaryRaises(suite_scores)
       THEN /\ pc' = "raised"
            /\ UNCHANGED <<summary_csv, rpc, new_row_data>>
       ELSE /\ summary_csv' = Summary(df, suite_scores)
            /\ new_row_data' = [new_row_data EXCEPT ![1] =
                   NewRowData(engine_name, move_time, total_points, df,
                              epd_filepath)]
            /\ rpc' = [rpc EXCEPT ![1] = "read_csv"]
            /\ pc' = "points_csv"
    /\ UNCHANGED <<inputVars, fen_chunks, workerVars, consumed, engine_moves,
                   scoreVars, points_csv, csv_before, points_df>>

\* Lines 232-237 in run r: the leaderboard is read and the new row put
\* behind its rows; without a file the new row is the whole frame.
ReadCsv(r) ==
    /\ rpc[r] = "read_csv"
    /\ points_df' = [points_df EXCEPT ![r] =
           IF points_csv.exists
           THEN read_csv(points_csv.rows) \o <<new_row_data[r]>>
           ELSE <<new_row_data[r]>>]
    /\ rpc' = [rpc EXCEPT ![r] = "to_csv"]
    /\ UNCHANGED <<pc, inputVars, fen_chunks, workerVars, consumed,
                   engine_moves, scoreVars, summary_csv, points_csv,
                   csv_before, new_row_data>>

\* Lines 239-244 in run r: the frame is sorted and written over the file.
ToCsv(r) ==
    /\ rpc[r] = "to_csv"
    /\ points_csv' = File(to_csv(SortPoints(points_df[r], <<>>)))
    /\ rpc' = [rpc EXCEPT ![r] = "written"]
    /\ UNCHANGED <<pc, inputVars, fen_chunks, workerVars, consumed,
                   engine_moves, scoreVars, summary_csv, csv_before,
                   new_row_data, points_df>>

\* Lines 246-264 and the end of main: the strength and weakness files are
\* written and the run ends.
ReportsDone ==
    /\ pc = "points_csv"
    /\ rpc[1] = "written"
    /\ pc' = "done"
    /\ UNCHANGED <<inputVars, fen_chunks, workerVars, consumed, engine_moves,
                   scoreVars, reportVars>>

\* The arguments of main that only the reports use, where they play no part.
NoArgs ==
    /\ engine_name = "SF"
    /\ move_time = 1
    /\ epd_filepath = <<"b.epd">>

\* No report has been written and no run updates the leaderboard.
NoReports ==
    /\ summary_csv = <<>>
    /\ points_csv = Absent
    /\ csv_before = Absent
    /\ rpc = <<>>
    /\ new_row_data = <<>>
    /\ points_df = <<>>

-----------------------------------------------------------------------------
(* main, lines 291-310: the engine name is asked of the engine when -n was *)
(* not given, and the suite is loaded.  args.engine_name is "" when -n was *)
(* not given.                                                              *)

\* The engine name has not been asked of an engine.
NoPreflight ==
    /\ main_engine = FALSE
    /\ main_quits = 0

\* A record of an EPD line as the loader takes it: the DataFrame of lines
\* 97-103 needs as many points as moves, and a line that does not give
\* them raises ValueError and is skipped.
ValidRecord(rec) == Len(rec.uci_move) = Len(rec.points) /\ rec.uci_move # <<>>

\* parse_epd_file(filepath): None (<<>>) when the file is not found or no
\* line gives a record, else <<the DataFrame>>.
parse_epd_file(file) ==
    IF ~file.exists THEN <<>>
    ELSE LET dfs_list == SelectSeq(file.rows, ValidRecord)
         IN  IF dfs_list = <<>> THEN <<>> ELSE <<ParsedDf(dfs_list)>>

\* The guard of engine.quit() in main, mutated: the engine is left running.
NameQuitNever == FALSE

\* Whether the finally clause of lines 303-305 calls engine.quit():
\* `if engine`.
NameQuitGuard == main_engine

\* Lines 291-302: with a name given nothing is asked; else popen_uci
\* raises, or the engine starts and has no id name (KeyError), and the
\* except clause is to return; or the engine starts and gives its name.
QueryName ==
    /\ pc = "main"
    /\ IF engine_name # ""
       THEN /\ pc' = "parse_epd_file"
            /\ UNCHANGED <<engine_name, main_engine>>
       ELSE \/ /\ pc' = "name_except"
               /\ UNCHANGED <<engine_name, main_engine>>
            \/ /\ main_engine' = TRUE
               /\ pc' = "name_except"
               /\ UNCHANGED engine_name
            \/ /\ main_engine' = TRUE
               /\ engine_name' = "SF"
               /\ pc' = "name_ok"
    /\ UNCHANGED <<df, fens_to_analyze, num_workers, custom_options, move_time,
                   epd_filepath, main_quits, fen_chunks, workerVars, consumed,
                   engine_moves, scoreVars, reportVars>>

\* Lines 303-305: the finally clause quits a started engine; main then
\* returns (after the except clause), or goes on to the loader, or ends
\* with the exception of engine.quit().
NameFinally ==
    /\ pc \in {"name_except", "name_ok"}
    /\ LET after == IF pc = "name_except" THEN "name_failed" ELSE "parse_epd_file"
       IN  IF NameQuitGuard
           THEN /\ main_quits' = main_quits + 1
                /\ \E quit_ok \in BOOLEAN :
                       pc' = IF quit_ok THEN after ELSE "name_raised"
           ELSE /\ pc' = after
                /\ UNCHANGED main_quits
    /\ UNCHANGED <<df, fens_to_analyze, num_workers, custom_options,
                   engine_name, move_time, epd_filepath, main_engine,
                   fen_chunks, workerVars, consumed, engine_moves, scoreVars,
                   reportVars>>

-----------------------------------------------------------------------------
(* SpecChunks: create_chunks on its own, over lists of up to MaxChunkLen   *)
(* positions and up to MaxChunkWorkers workers.                            *)

InitChunks ==
    /\ pc = "chunks"
    /\ \E n \in 0..MaxChunkLen : fens_to_analyze = [k \in 1..n |-> k]
    /\ num_workers \in 1..MaxChunkWorkers
    /\ fen_chunks = <<>>
    /\ df = <<>>
    /\ custom_options = <<>>
    /\ NoWorkers
    /\ NoPreflight
    /\ consumed = {}
    /\ engine_moves = <<>>
    /\ NoScores
    /\ NoArgs
    /\ NoReports

\* fen_chunks = create_chunks(fens_to_analyze, num_workers)
CreateChunks ==
    /\ pc = "chunks"
    /\ fen_chunks' = create_chunks(fens_to_analyze, num_workers)
    /\ pc' = "chunked"
    /\ UNCHANGED <<inputVars, workerVars, consumed, engine_moves, scoreVars,
                   reportVars>>

NextChunks == CreateChunks

SpecChunks == InitChunks /\ [][NextChunks]_vars

-----------------------------------------------------------------------------
(* Spec: one run of run_analysis and what follows it in main, over suites  *)
(* of 1 to MaxRecords records (main goes on only with a suite that has a   *)
(* record) and up to MaxWorkers workers.                                   *)

\* The option lists tried: no -o argument; "H1" (no separator) followed by
\* " T = 2" (a separator, with blanks to strip).
OptionLists ==
    { <<>>,
      << <<"H", "1">>, <<" ", "T", " ", "=", " ", "2">> >> }

\* The records of the suites tried, a suite being a prefix of them:
\* "A.10" is a later position of suite A than "A.2", "B.2 x" has the digit
\* runs of "A.2", and the fourth record repeats the first position under
\* another id.
SuiteRecords ==
    << [fen |-> 1, id |-> <<"A", ".", "2">>,
        uci_move |-> <<"e2e4", "d2d4">>, points |-> <<10, 5>>],
       [fen |-> 2, id |-> <<"A", ".", "1", "0">>,
        uci_move |-> <<"d2d4">>, points |-> <<3>>],
       [fen |-> 3, id |-> <<"B", ".", "2", " ", "x">>,
        uci_move |-> <<"e2e4">>, points |-> <<7>>],
       [fen |-> 1, id |-> <<"A", ".", "4">>,
        uci_move |-> <<"e2e4">>, points |-> <<1>>],
       [fen |-> 5, id |-> <<"C", "1">>,
        uci_move |-> <<"e2e4">>, points |-> <<2>>] >>

\* A leaderboard row as to_csv writes it.
Entry(name, tfile, mts, points, total) ==
    [Engine |-> name, TFile |-> tfile, MTS |-> mts, Points |-> points,
     Total |-> total, Pct |-> Pct(points, total)]

\* The leaderboards a run may find: none; the one that runs of "Lc0" on
\* a.epd and of "SF" and "Lc0" on b.epd left; the one that a run with
\* -n NA on c.epd left.
Leaderboards ==
    { Absent,
      File(<< Entry("Lc0", "a.epd", 1, 5, 200),
              Entry("SF", "b.epd", 1, 10, 100),
              Entry("Lc0", "b.epd", 2, 8, 100) >>),
      File(<< Entry("NA", "c.epd", 1, 10, 100) >>) }

Init ==
    /\ pc = "run_analysis"
    /\ \E n \in 1..Min(MaxRecords, Len(SuiteRecords)) :
           df = ParsedDf(SubSeq(SuiteRecords, 1, n))
    /\ fens_to_analyze = UniqueFens(df)
    /\ num_workers \in 1..MaxWorkers
    /\ custom_options \in OptionLists
    /\ engine_name = "SF"
    /\ move_time = 1
    /\ epd_filepath = <<"suites", "b.epd">>
    /\ fen_chunks = <<>>
    /\ NoWorkers
    /\ NoPreflight
    /\ consumed = {}
    /\ engine_moves = <<>>
    /\ NoScores
    /\ summary_csv = <<>>
    /\ points_csv \in Leaderboards
    /\ csv_before = points_csv
    /\ rpc = <<"generate_reports">>
    /\ new_row_data = << <<>> >>
    /\ points_df = << <<>> >>

Next ==
    \/ Submit
    \/ \E w \in Workers : PopenUci(w)
    \/ \E w \in Workers : Configure(w)
    \/ \E w \in Workers : Analyse(w)
    \/ \E w \in Workers : Finally(w)
    \/ \E w \in Workers : AsCompleted(w)
    \/ Return
    \/ ScoreLoop
    \/ ScoreWrite
    \/ GenerateReports
    \/ ReadCsv(1)
    \/ ToCsv(1)
    \/ ReportsDone

Spec == Init /\ [][Next]_vars

\* The run with its scheduling: the pool runs every submitted worker, every
\* engine call returns or raises, and the orchestrating process goes on
\* whenever it can, so that a step that stays possible is taken.
SpecLive == Spec /\ WF_vars(Next)

-----------------------------------------------------------------------------
(* SpecMain: a run of main from its first line, with or without -n, over   *)
(* the suite files of up to MaxMainRecords records and up to               *)
(* MaxMainWorkers workers.                                                 *)

\* An EPD line that gives no record: two moves for one point value.
BadLine ==
    [fen |-> 9, id |-> <<"Z", ".", "1">>,
     uci_move |-> <<"e2e4", "d2d4">>, points |-> <<10>>]

\* The suite files tried: no file, an empty file, and files of one line
\* without a record followed by up to `most` lines with one.
EpdFiles(most) ==
    {Absent, File(<<>>)}
        \cup {File(<<BadLine>> \o SubSeq(SuiteRecords, 1, n)) :
                  n \in 0..Min(most, Len(SuiteRecords))}

\* Lines 307-316: the suite is loaded; without a DataFrame main returns,
\* else the unique positions are taken and run_analysis is called.
ParseEpdFile ==
    /\ pc = "parse_epd_file"
    /\ \E file \in EpdFiles(MaxMainRecords) :
           LET parsed_df == parse_epd_file(file)
           IN  IF parsed_df = <<>>
               THEN /\ pc' = "parse_failed"
                    /\ UNCHANGED <<df, fens_to_analyze>>
               ELSE /\ df' = parsed_df[1]
                    /\ fens_to_analyze' = UniqueFens(parsed_df[1])
                    /\ pc' = "run_analysis"
    /\ UNCHANGED <<num_workers, custom_options, engine_name, move_time,
                   epd_filepath, main_engine, main_quits, fen_chunks,
                   workerVars, consumed, engine_moves, scoreVars, reportVars>>

InitMain ==
    /\ pc = "main"
    /\ df = <<>>
    /\ fens_to_analyze = <<>>
    /\ num_workers \in 1..MaxMainWorkers
    /\ custom_options \in OptionLists
    /\ engine_name \in {"", "SF"}
    /\ move_time = 1
    /\ epd_filepath = <<"suites", "b.epd">>
    /\ NoPreflight
    /\ fen_chunks = <<>>
    /\ NoWorkers
    /\ consumed = {}
    /\ engine_moves = <<>>
    /\ NoScores
    /\ summary_csv = <<>>
    /\ points_csv \in Leaderboards
    /\ csv_before = points_csv
    /\ rpc = <<"generate_reports">>
    /\ new_row_data = << <<>> >>
    /\ points_df = << <<>> >>

NextMain ==
    \/ QueryName
    \/ NameFinally
    \/ ParseEpdFile
    \/ Next

SpecMain == InitMain /\ [][NextMain]_vars

-----------------------------------------------------------------------------
(* SpecOptions: one worker with the whole suite as its chunk, over the     *)
(* lists of up to MaxOptions option strings, the same string any number of *)
(* times.                                                                  *)

\* The option strings a list is made of: "H1" has no separator, " T = 2"
\* has blanks to strip, "A=1" is plain.
OptionStrings ==
    { <<"H", "1">>, <<" ", "T", " ", "=", " ", "2">>, <<"A", "=", "1">> }

InitOptions ==
    /\ pc = "run_analysis"
    /\ df = ParsedDf(SubSeq(SuiteRecords, 1, 2))
    /\ fens_to_analyze = UniqueFens(df)
    /\ num_workers = 1
    /\ custom_options \in SeqsUpTo(OptionStrings, MaxOptions)
    /\ NoArgs
    /\ fen_chunks = <<>>
    /\ NoWorkers
    /\ NoPreflight
    /\ consumed = {}
    /\ engine_moves = <<>>
    /\ NoScores
    /\ NoReports

NextOptions ==
    \/ Submit
    \/ \E w \in Workers : PopenUci(w)
    \/ \E w \in Workers : Configure(w)
    \/ \E w \in Workers : Analyse(w)
    \/ \E w \in Workers : Finally(w)

SpecOptions == InitOptions /\ [][NextOptions]_vars

-----------------------------------------------------------------------------
(* SpecScore: calculate_scores on its own, over suites of up to            *)
(* MaxScoreRecords records and dicts of up to MaxScoreItems items; position *)
(* 3 is in no suite.                                                       *)

\* The records a suite is made of.
ScoreRecords ==
    { [fen |-> f, id |-> i, uci_move |-> r[1], points |-> r[2]] :
        f \in {1, 2},
        i \in { <<"A", ".", "1", "0">>, <<"B", ".", "2", " ", "x">> },
        r \in { << <<"e2e4", "d2d4">>, <<200, 5>> >>,
                << <<"d2d4", "d2d4">>, <<7, 3>> >> } }

\* The dicts engine_moves may be: distinct positions, each with a move or None.
ScoreDicts ==
    { d \in SeqsUpTo({1, 2, 3} \X {<<"e2e4">>, <<"d2d4">>, <<>>}, MaxScoreItems) :
        IsInjective(DictKeys(d)) }

InitScore ==
    /\ pc = "calculate_scores"
    /\ \E records \in SeqsUpTo(ScoreRecords, MaxScoreRecords) :
           df = ParsedDf(records)
    /\ engine_moves \in ScoreDicts
    /\ fens_to_analyze = DictKeys(engine_moves)
    /\ num_workers = 1
    /\ custom_options = <<>>
    /\ fen_chunks = <<>>
    /\ NoWorkers
    /\ NoPreflight
    /\ consumed = {}
    /\ NoScores
    /\ NoArgs
    /\ NoReports

NextScore ==
    \/ ScoreLoop
    \/ ScoreWrite

SpecScore == InitScore /\ [][NextScore]_vars

-----------------------------------------------------------------------------
(* SpecLeaderboard: two runs of main that have reached the leaderboard     *)
(* update of generate_reports at the same time.  Nothing orders the file   *)
(* operations of two processes: each run reads and later writes, and the   *)
(* four operations interleave freely.                                      *)

\* The new rows the two runs may bring.
NewRows ==
    { NewRowData(name, 1, points, ParsedDf(SubSeq(SuiteRecords, 1, 2)), <<file>>) :
        name \in {"SF", "NA"}, points \in {0, 10}, file \in {"a.epd", "b.epd"} }

InitLeaderboard ==
    /\ pc = "points_csv"
    /\ df = <<>>
    /\ fens_to_analyze = <<>>
    /\ num_workers = 1
    /\ custom_options = <<>>
    /\ NoArgs
    /\ fen_chunks = <<>>
    /\ NoWorkers
    /\ NoPreflight
    /\ consumed = {}
    /\ engine_moves = <<>>
    /\ NoScores
    /\ summary_csv = <<>>
    /\ points_csv \in Leaderboards
    /\ csv_before = points_csv
    /\ rpc = <<"read_csv", "read_csv">>
    /\ new_row_data \in [1..2 -> NewRows]
    /\ points_df = << <<>>, <<>> >>

NextLeaderboard ==
    \/ \E r \in Runs : ReadCsv(r)
    \/ \E r \in Runs : ToCsv(r)

SpecLeaderboard == InitLeaderboard /\ [][NextLeaderboard]_vars

-----------------------------------------------------------------------------
(* The chunks: C1 *)

\* The sizes of the chunks, in chunk order.
ChunkSizes == [k \in 1..Len(fen_chunks) |-> Len(fen_chunks[k])]

\* C1: for N >= 0 positions and W >= 1 workers the chunk sizes sum to N,
\* each size is floor(N/W) or ceil(N/W), and the chunks of size
\* floor(N/W)+1 are exactly the first N mod W chunks.
C1_ChunkSizes ==
    pc = "chunked" =>
        LET N == Len(fens_to_analyze)
            W == num_workers
            floor == N \div W
            ceil == (N + W - 1) \div W
        IN  /\ SumSeq(ChunkSizes) = N
            /\ \A k \in 1..Len(fen_chunks) : ChunkSizes[k] \in {floor, ceil}
            /\ {k \in 1..Len(fen_chunks) : ChunkSizes[k] = floor + 1}
                   = 1..(N % W)

\* C1 witness: an uneven split has been computed (7 positions, 3 workers).
C1_Witness ==
    /\ pc = "chunked"
    /\ Len(fens_to_analyze) = 7
    /\ num_workers = 3
    /\ ChunkSizes = <<3, 2, 2>>

-----------------------------------------------------------------------------
(* The workers: C2, C3, C4 *)

\* The workers that have ended, by returning or by raising.
Ended == {w \in DOMAIN wpc : wpc[w] \in {"returned", "raised"}}

\* Whether the list a is a prefix of the list b.
IsPrefix(a, b) == Len(a) <= Len(b) /\ a = SubSeq(b, 1, Len(a))

\* A worker returns the map of exactly the positions before the failed one.
C2_ReturnedMap ==
    \A w \in DOMAIN wpc :
        (wpc[w] = "returned" /\ caught[w] = "analyse") =>
            /\ fen_i[w] < Len(fen_chunks[w])
            /\ DictKeys(chunk_results[w]) = SubSeq(fen_chunks[w], 1, fen_i[w])

\* A step leaves every computed entry of every worker's map in place; the
\* step in which a worker catches an error, and the step in which it runs
\* its finally clause and returns, change no worker's map; and the map of
\* a worker that has ended stays as it is.
C2_Step ==
    \A w \in DOMAIN wpc :
        /\ IsPrefix(chunk_results[w], chunk_results'[w])
        /\ (caught'[w] # caught[w] \/ (wpc[w] = "finally" /\ wpc'[w] # "finally"))
               => chunk_results' = chunk_results
        /\ w \in Ended => chunk_results'[w] = chunk_results[w]

\* C2: when the k-th position of a chunk fails, the map the worker returns
\* holds exactly the first k-1 positions of the chunk, in chunk order, with
\* the moves computed for them, and no other worker's map changes.
C2_PartialResults == []C2_ReturnedMap /\ [][C2_Step]_vars

\* C2 witness: a worker whose second position failed has returned the
\* move of its first position, and another worker has returned its own.
C2_Witness ==
    \E w, v \in DOMAIN wpc :
        /\ w # v
        /\ wpc[w] = "returned" /\ caught[w] = "analyse"
        /\ fen_i[w] = 1
        /\ chunk_results[w] = << <<fen_chunks[w][1], <<"e2e4">> >> >>
        /\ wpc[v] = "returned" /\ caught[v] = "" /\ chunk_results[v] # <<>>

\* C3: an engine that a worker started is quit at most once, only a started
\* engine is quit, and when the worker ends it has been quit exactly once.
C3_QuitOnce ==
    \A w \in DOMAIN wpc :
        /\ quits[w] <= 1
        /\ quits[w] = 1 => engine[w]
        /\ (w \in Ended /\ engine[w]) => quits[w] = 1

\* C3 witness: a worker whose engine rejected an option and whose search
\* then failed has returned, its engine quit once.
C3_Witness ==
    \E w \in DOMAIN wpc :
        /\ wpc[w] = "returned" /\ engine[w]
        /\ caught[w] = "analyse"
        /\ \E k \in 1..Len(warnings[w]) : warnings[w][k][1] = "Could not set option"
        /\ quits[w] = 1

\* C4 as stated: every worker that has ended has invoked shutdown, at
\* whatever step its chunk aborted, engine start included.
C4_QuitAlways == \A w \in Ended : quits[w] >= 1

\* C4 amended: a worker that has ended has invoked shutdown once when its
\* engine started (the chunk completed, or aborted at a search), and not at
\* all when the engine start itself failed.
C4_QuitIfStarted ==
    \A w \in Ended : quits[w] = IF caught[w] = "popen_uci" THEN 0 ELSE 1

\* C4 witness: one worker's chunk aborted at a search and its engine was
\* quit; another worker's engine did not start and nothing was quit.
C4_Witness ==
    \E w, v \in Ended :
        /\ caught[w] = "analyse" /\ quits[w] = 1
        /\ caught[v] = "popen_uci" /\ quits[v] = 0

-----------------------------------------------------------------------------
(* The merge: C5, C6 *)

\* The items of a dict, as a set.
Items(d) == {d[j] : j \in 1..Len(d)}

\* The keys of a dict, as a set.
KeySet(d) == {d[j][1] : j \in 1..Len(d)}

\* The workers whose result has been merged.
Merged == {w \in consumed : wpc[w] = "returned"}

\* C5: the workers' maps have pairwise disjoint key sets, and engine_moves
\* is the union of the maps merged so far, every item of every merged map
\* being in it with the worker's value: no entry was overwritten.
C5_DisjointUnion ==
    /\ \A w, v \in DOMAIN wpc :
           w # v => KeySet(chunk_results[w]) \cap KeySet(chunk_results[v]) = {}
    /\ pc # "run_analysis" =>
           /\ Items(engine_moves) = UNION {Items(chunk_results[w]) : w \in Merged}
           /\ IsInjective(DictKeys(engine_moves))

\* C5 witness: run_analysis has returned a map that the second worker's
\* result entered first.
C5_Witness ==
    /\ pc = "calculate_scores"
    /\ Len(fen_chunks) = 2
    /\ chunk_results[1] # <<>> /\ chunk_results[2] # <<>>
    /\ engine_moves = chunk_results[2] \o chunk_results[1]

\* The orders in which the futures of the workers can complete.
CompletionOrders ==
    {order \in [1..Len(fen_chunks) -> 1..Len(fen_chunks)] : IsInjective(order)}

RECURSIVE MergeInOrder(_, _)
\* engine_moves after the as_completed loop has taken the workers' results
\* in the given order, from the dict d.
MergeInOrder(order, d) ==
    IF order = <<>> THEN d
    ELSE MergeInOrder(Tail(order), DictUpdate(d, chunk_results[order[1]]))

\* Whether two dicts are the same mapping.
SameMapping(d, e) == Items(d) = Items(e) /\ Len(d) = Len(e)

\* Whether the rows are in non-decreasing order of version_sort_key.
RowsSorted(rows) ==
    \A i, j \in 1..Len(rows) :
        i < j => ~ListLess(version_sort_key(rows[j]), version_sort_key(rows[i]))

\* Whether no two of the rows have the same version_sort_key.
KeysDistinct(rows) ==
    \A i, j \in 1..Len(rows) :
        version_sort_key(rows[i]) = version_sort_key(rows[j]) => i = j

\* C6 as stated: whatever order the workers' results were merged in,
\* calculate_scores gives the totals, the suite scores and the sequence of
\* detail rows it gave in this run.
C6_SameRows ==
    pc = "generate_reports" /\ DOMAIN wpc # {} =>
        \A order \in CompletionOrders :
            LET other == calculate_scores(MergeInOrder(order, <<>>), df)
            IN  /\ other.total_points = total_points
                /\ SameMapping(other.suite_scores, suite_scores)
                /\ other.results_data = results_data

\* C6, the part that holds: whatever order the workers' results were merged
\* in, calculate_scores gives the same total, the same suite scores and the
\* same detail rows in non-decreasing order of their digit-run keys; the
\* sequence of rows is the same when no two rows have equal keys.
C6_SameScores ==
    pc = "generate_reports" /\ DOMAIN wpc # {} =>
        \A order \in CompletionOrders :
            LET other == calculate_scores(MergeInOrder(order, <<>>), df)
            IN  /\ other.total_points = total_points
                /\ SameMapping(other.suite_scores, suite_scores)
                /\ Items(other.results_data) = Items(results_data)
                /\ Len(other.results_data) = Len(results_data)
                /\ RowsSorted(results_data)
                /\ KeysDistinct(results_data) => other.results_data = results_data

-----------------------------------------------------------------------------
(* The scores: C7, C8 *)

\* The entries of a ruling whose move is the engine's move.
Matches(ruling, engine_best_move) ==
    {k \in 1..Len(ruling) : <<ruling[k][1]>> = engine_best_move}

\* C7: every detail row carries the points of the first entry of its
\* position's ruling whose move is the engine's move, 0 when there is none
\* or the engine gave no move, and no warning row names its position.
C7_FirstMatch ==
    \A j \in 1..Len(results_data) :
        LET row == results_data[j]
            ruling == epd_data_lookup(df, row[2]).scored_moves
            hits == Matches(ruling, row[3])
        IN  /\ row[5] = IF hits = {} THEN 0
                         ELSE ruling[CHOOSE k \in hits : \A h \in hits : k <= h][2]
            /\ row[3] = <<>> => row[5] = 0
            /\ \A h \in 1..Len(warnings_data) : warnings_data[h][2] # row[2]

\* C7 witness: the engine's move is twice in a ruling and earned the first
\* entry's points; another position, without a move, earned 0.
C7_Witness ==
    /\ pc = "generate_reports"
    /\ \E j \in 1..Len(results_data) :
           /\ results_data[j][3] = <<"d2d4">>
           /\ results_data[j][4] = << <<"d2d4", 7>>, <<"d2d4", 3>> >>
           /\ results_data[j][5] = 7
    /\ \E j \in 1..Len(results_data) :
           results_data[j][3] = <<>> /\ results_data[j][5] = 0
    /\ warnings_data = <<>>

\* Whether the scoring loop is about to take an item whose position is
\* not in the suite.
AtMissingFen ==
    /\ pc = "calculate_scores"
    /\ score_i < Len(engine_moves)
    /\ ~HasPosition(df, engine_moves[score_i + 1][1])

\* C8: the iteration for a position that is not in the suite appends one
\* warning row, naming the position, and leaves the detail rows, the
\* running total and the suite scores as they were.
C8_MissingFen ==
    [][AtMissingFen =>
          /\ Len(warnings_data') = Len(warnings_data) + 1
          /\ IsPrefix(warnings_data, warnings_data')
          /\ warnings_data'[Len(warnings_data')][2] = engine_moves[score_i + 1][1]
          /\ results_data' = results_data
          /\ total_points' = total_points
          /\ suite_scores' = suite_scores]_vars

\* C8 witness: after a position that earned points, a position that is not
\* in the suite has been taken and warned about.
C8_Witness ==
    /\ pc = "calculate_scores"
    /\ score_i = 2
    /\ ~HasPosition(df, engine_moves[2][1])
    /\ total_points > 0
    /\ Len(warnings_data) = 1
    /\ Len(results_data) = 1

-----------------------------------------------------------------------------
(* The leaderboard: C9, C10 *)

\* How many times x occurs in the list s.
Count(s, x) == Cardinality({k \in 1..Len(s) : s[k] = x})

\* Whether two lists hold the same elements the same number of times.
SameBag(a, b) ==
    /\ Len(a) = Len(b)
    /\ \A x \in Items(a) \cup Items(b) : Count(a, x) = Count(b, x)

\* Whether the rows of a leaderboard file are in order: suite file
\* ascending, then move time ascending, then percentage descending.
InOrder(rows) ==
    \A i, j \in 1..Len(rows) :
        i < j =>
            LET a == ReadRow(rows[i])
                b == ReadRow(rows[j])
            IN  \/ TFileLess(a.TFile, b.TFile)
                \/ a.TFile = b.TFile /\ a.MTS < b.MTS
                \/ a.TFile = b.TFile /\ a.MTS = b.MTS /\ a.Pct >= b.Pct

\* C9: when the run has ended, points.csv holds the rows it held before the
\* run (none when there was no file) and one new row, that of the run, and
\* its rows are in order.
C9_AppendSorted ==
    pc = "done" =>
        /\ SameBag(points_csv.rows,
                   csv_before.rows \o <<WriteRow(new_row_data[1])>>)
        /\ InOrder(points_csv.rows)

\* C9, the part that holds: the rows of the file are the rows it held
\* before the run as read_csv and to_csv pass them on, and the run's row,
\* in order.
C9_AppendReread ==
    pc = "done" =>
        /\ SameBag(points_csv.rows,
                   to_csv(read_csv(csv_before.rows)) \o <<WriteRow(new_row_data[1])>>)
        /\ InOrder(points_csv.rows)

\* Both runs have written the leaderboard.
BothWritten == \A r \in Runs : rpc[r] = "written"

\* Run r read the leaderboard before the other run wrote it: its frame is
\* the leaderboard as it was at the start, and its own row.
ReadTheOld(r) == points_df[r] = read_csv(csv_before.rows) \o <<new_row_data[r]>>

\* The row of run r is in points.csv, as the run wrote it or as a later
\* run read and wrote it.
Present(r) ==
    \E k \in 1..Len(points_csv.rows) :
        points_csv.rows[k] \in {WriteRow(new_row_data[r]),
                                WriteRow(ReadRow(WriteRow(new_row_data[r])))}

\* C10: when both runs read the leaderboard before either wrote it, the
\* file ends with one row more than it had, the row of one of the runs;
\* when one run read after the other wrote, the file ends with two rows
\* more, the rows of both runs.
C10_LostUpdate ==
    (Cardinality(Runs) = 2 /\ BothWritten) =>
        IF \A r \in Runs : ReadTheOld(r)
        THEN /\ Len(points_csv.rows) = Len(csv_before.rows) + 1
             /\ \E r \in Runs : Present(r)
        ELSE /\ Len(points_csv.rows) = Len(csv_before.rows) + 2
             /\ \A r \in Runs : Present(r)

\* C10 witness: the two runs interleaved, and the row of the first run is
\* not in the leaderboard, which holds the second run's row.
C10_Witness ==
    /\ Cardinality(Runs) = 2 /\ BothWritten
    /\ \A r \in Runs : ReadTheOld(r)
    /\ csv_before.exists /\ Len(csv_before.rows) = 3
    /\ ~Present(1)
    /\ Present(2)
    /\ Len(points_csv.rows) = 4

\* C10 witness of the other half: the second run read after the first
\* wrote, and the rows of both are in the leaderboard.
C10_WitnessSerial ==
    /\ Cardinality(Runs) = 2 /\ BothWritten
    /\ ReadTheOld(1) /\ ~ReadTheOld(2)
    /\ new_row_data[1] # new_row_data[2]
    /\ Present(1) /\ Present(2)
    /\ Len(points_csv.rows) = Len(csv_before.rows) + 2

-----------------------------------------------------------------------------
(* The end of the run: C11 *)

\* Every worker has ended without a result: its engine did not start.
AllChunksFailed ==
    /\ DOMAIN wpc # {}
    /\ \A w \in DOMAIN wpc : wpc[w] = "returned" /\ caught[w] = "popen_uci"

\* C11 as stated: whatever chunks fail and wherever, the run completes: the
\* workers are collected, the scores are computed and the reports and the
\* leaderboard are written.
C11_RunCompletes == <>(pc = "done")

\* C11 as stated, in the case it names: when every chunk has failed
\* before producing any result, the run still completes.
C11_AllFailedCompletes == AllChunksFailed ~> (pc = "done")

\* C11, the part that holds: the run ends, with its reports written or with
\* an exception; the exception is that of a worker whose engine.quit()
\* raised, or that of the summary lines of generate_reports, which raise
\* when no position was scored.
C11_EndsOrRaises ==
    /\ <>(pc \in {"done", "raised"})
    /\ [](pc = "raised" =>
             \/ \E w \in DOMAIN wpc : wpc[w] = "raised"
             \/ engine_moves = <<>> /\ summary_csv = <<>> /\ points_csv = csv_before)

\* C11, the case that fails: every chunk failed before producing a result,
\* and the run has ended with the exception of generate_reports, no report
\* and no leaderboard row written.
C11_AllFailedRaised ==
    /\ AllChunksFailed
    /\ pc = "raised"
    /\ details_csv = <<DetailsHeader>>
    /\ summary_csv = <<>>
    /\ points_csv = csv_before

-----------------------------------------------------------------------------
(* The suite totals: C12 *)

\* The positions of the suite: the keys of epd_data_lookup.
LookupFens(suite) == {suite[k].fen : k \in 1..Len(suite)}

\* The suite id under which calculate_scores counts the position.
SuiteIdOf(suite, fen) == SplitSpaceFirst(epd_data_lookup(suite, fen).id)

\* The answers an engine can give at a position that earn something
\* different: none, or a move of the ruling.
Answers(ruling) == {<<>>} \cup {<<ruling[k][1]>> : k \in 1..Len(ruling)}

\* The most points an answer earns at a position with the given ruling.
MaxAward(ruling) ==
    LET earned == {AwardedPoints(ruling, a, 0) : a \in Answers(ruling)}
    IN  CHOOSE m \in earned : \A e \in earned : e <= m

RECURSIVE SumMaxAward(_, _)
\* The sum of MaxAward over the positions `fens` of the suite.
SumMaxAward(suite, fens) ==
    IF fens = {} THEN 0
    ELSE LET f == CHOOSE g \in fens : TRUE
         IN  MaxAward(epd_data_lookup(suite, f).scored_moves)
                 + SumMaxAward(suite, fens \ {f})

\* The most that the positions counted under suite_id can earn together.
SuiteMax(suite, suite_id) ==
    SumMaxAward(suite, {f \in LookupFens(suite) : SuiteIdOf(suite, f) = suite_id})

\* Whether the engine gave, at every position counted under suite_id, an
\* answer that earns the most.
AllBest(suite_id) ==
    \A f \in LookupFens(df) :
        SuiteIdOf(df, f) = suite_id =>
            /\ DictHas(engine_moves, f)
            /\ LET ruling == epd_data_lookup(df, f).scored_moves
               IN  AwardedPoints(ruling, DictGet(engine_moves, f), 0)
                       = MaxAward(ruling)

C12_WitnessBelow ==
    /\ pc = "generate_reports"
    /\ Len(suite_scores) = 1
    /\ AllBest(suite_scores[1][1])
    /\ suite_scores[1][2] = 7
    /\ SuiteTotal(df, suite_scores[1][1]) = 100

-----------------------------------------------------------------------------
(* The details file: C13 *)

\* C13: the details file is its header, then the detail rows, then the
\* warning rows; of two detail rows the one whose id has the smaller list
\* of digit runs, read as integers, comes first.
C13_NaturalOrder ==
    pc = "generate_reports" =>
        LET n == Len(results_data)
        IN  /\ details_csv = <<DetailsHeader>> \o results_data \o warnings_data
            /\ \A i, j \in 1..n :
                   ListLess(version_sort_key(details_csv[i + 1]),
                            version_sort_key(details_csv[j + 1])) => i < j
            /\ \A k \in (n + 2)..Len(details_csv) :
                   details_csv[k][1] = "WARNING: FEN not found"

\* C13 witness: the position of "A.10" was scored before that of "B.2 x",
\* and the file has the row of "B.2 x" first.
C13_Witness ==
    /\ pc = "generate_reports"
    /\ Len(engine_moves) = 2
    /\ Len(results_data) = 2
    /\ Len(details_csv) = 3
    /\ details_csv[2][1] = <<"B", ".", "2", " ", "x">>
    /\ details_csv[3][1] = <<"A", ".", "1", "0">>
    /\ details_csv[3][2] = engine_moves[1][1]
    /\ details_csv[2][2] = engine_moves[2][1]

\* C13 witness of the warning rows: a position that is not in the suite
\* was taken first, and its warning row is behind the detail row.
C13_WitnessWarning ==
    /\ pc = "generate_reports"
    /\ Len(engine_moves) = 2
    /\ ~HasPosition(df, engine_moves[1][1])
    /\ Len(results_data) = 1
    /\ details_csv[2] = results_data[1]
    /\ details_csv[3] = <<"WARNING: FEN not found", engine_moves[1][1], "", "", "">>

-----------------------------------------------------------------------------
(* The chunks as slices: C14 *)

\* C14: the chunks, put one behind the other in chunk order, are the input
\* list; every index of the list lies in exactly one chunk.
C14_Contiguous ==
    pc = "chunked" =>
        /\ Concat(fen_chunks) = fens_to_analyze
        /\ \A p \in 1..Len(fens_to_analyze) :
               Cardinality({c \in 1..Len(fen_chunks) :
                   \E k \in 1..Len(fen_chunks[c]) :
                       fen_chunks[c][k] = fens_to_analyze[p]}) = 1

\* C14 witness: 7 positions have been cut into the slices of 3 workers.
C14_Witness ==
    /\ pc = "chunked"
    /\ fens_to_analyze = <<1, 2, 3, 4, 5, 6, 7>>
    /\ fen_chunks = << <<1, 2, 3>>, <<4, 5>>, <<6, 7>> >>

-----------------------------------------------------------------------------
(* No retry: C15 *)

\* How many searches of the run were given the position.
Searches(fen) ==
    SumSeq([w \in 1..Len(searched) |-> Count(searched[w], fen)])

\* The positions of the workers' chunks whose search failed or that their
\* worker did not come to, the workers having ended.
Lost ==
    UNION {{fen_chunks[w][k] : k \in (fen_i[w] + 1)..Len(fen_chunks[w])} :
              w \in Ended}

\* C15: no position is given to more than one search, by any workers; when
\* the workers have been collected, a position whose search failed was
\* searched once, a position its worker did not come to was not searched
\* at all, and neither is a key of the merged result.
C15_NoRetry ==
    /\ \A k \in 1..Len(fens_to_analyze) : Searches(fens_to_analyze[k]) <= 1
    /\ pc \in {"calculate_scores", "generate_reports", "points_csv", "done"} =>
           \A w \in DOMAIN wpc :
               \A k \in (fen_i[w] + 1)..Len(fen_chunks[w]) :
                   LET fen == fen_chunks[w][k]
                   IN  /\ Searches(fen) =
                              IF k = fen_i[w] + 1 /\ caught[w] = "analyse"
                              THEN 1 ELSE 0
                       /\ ~DictHas(engine_moves, fen)

\* C15 witness: a worker's first search failed with a second position
\* still to come, another worker's engine did not start, and the run went
\* on without the three positions.
C15_Witness ==
    /\ pc = "calculate_scores"
    /\ Len(fen_chunks) = 2
    /\ caught[1] = "analyse" /\ fen_i[1] = 0 /\ Len(fen_chunks[1]) = 2
    /\ searched[1] = <<fen_chunks[1][1]>>
    /\ caught[2] = "popen_uci" /\ searched[2] = <<>>
    /\ Cardinality(Lost) = 3
    /\ engine_moves = <<>>

-----------------------------------------------------------------------------
(* The options: C16 *)

\* The {name: value} of the option strings that have a separator, in list
\* order: what engine.configure is to be called with.
Applied(options) ==
    LET with_eq == SelectSeq(options, HasEq)
    IN  [k \in 1..Len(with_eq) |->
            <<Strip(SplitEq(with_eq[k])[1]), Strip(SplitEq(with_eq[k])[2])>>]

\* The warnings of worker w about the format of an option string.
FormatWarnings(w) ==
    SelectSeq(warnings[w], LAMBDA x : x[1] = "Ignoring invalid option format")

\* C16: an option string never ends a worker: only the engine start and a
\* search do.  Once the engine has started and the option loop is over,
\* every string with a separator was passed to the engine, in list order,
\* whatever the engine said to the earlier ones, every string without one
\* was warned about, and no string gave more than one warning; a worker
\* that returns without an error of a search has evaluated every position
\* of its chunk.
C16_OptionsOnlyWarn ==
    \A w \in DOMAIN wpc :
        /\ caught[w] \in {"", "popen_uci", "analyse"}
        /\ wpc[w] \in {"popen_uci", "configure"} => caught[w] = ""
        /\ (engine[w] /\ wpc[w] # "configure") =>
               /\ opt_i[w] = Len(custom_options)
               /\ configured[w] = Applied(custom_options)
               /\ [k \in 1..Len(FormatWarnings(w)) |-> FormatWarnings(w)[k][2]]
                      = SelectSeq(custom_options, LAMBDA o : ~HasEq(o))
               /\ Len(warnings[w]) <= Len(custom_options)
        /\ (engine[w] /\ wpc[w] = "returned" /\ caught[w] = "") =>
               DictKeys(chunk_results[w]) = fen_chunks[w]

\* C16 witness: the engine rejected "A=1", "H1" had no separator, " T = 2"
\* was still applied, and the worker evaluated its two positions.
C16_Witness ==
    /\ custom_options = << <<"A", "=", "1">>, <<"H", "1">>,
                           <<" ", "T", " ", "=", " ", "2">> >>
    /\ DOMAIN wpc = {1}
    /\ wpc[1] = "returned"
    /\ warnings[1] = << <<"Could not set option", <<"A">> >>,
                        <<"Ignoring invalid option format", <<"H", "1">> >> >>
    /\ configured[1] = << << <<"A">>, <<"1">> >>, << <<"T">>, <<"2">> >> >>
    /\ Len(chunk_results[1]) = 2

-----------------------------------------------------------------------------
(* The start of main: C17 *)

\* main has not come to run_analysis: it is at its pre-flight lines, or it
\* ended there.
BeforeAnalysis ==
    pc \in {"main", "name_except", "name_ok", "parse_epd_file",
            "name_failed", "name_raised", "parse_failed"}

\* main ended at its pre-flight lines.
StoppedEarly == pc \in {"name_failed", "name_raised", "parse_failed"}

\* Nothing of a run has happened: no worker, no search, no score, no file.
NothingDone ==
    /\ fen_chunks = <<>>
    /\ NoWorkers
    /\ consumed = {}
    /\ engine_moves = <<>>
    /\ NoScores
    /\ summary_csv = <<>>
    /\ points_csv = csv_before

\* C17, of a state: until the name is known and the suite is loaded nothing
\* of a run has happened; the engine of the name discovery is quit at most
\* once, only when it started, and once when main has left the discovery.
C17_NothingBefore ==
    /\ BeforeAnalysis => NothingDone
    /\ main_quits <= 1
    /\ main_quits = 1 => main_engine
    /\ (main_engine /\ pc \notin {"main", "name_except", "name_ok"}) =>
           main_quits = 1

C17_WitnessNoName ==
    /\ pc = "name_failed"
    /\ engine_name = ""
    /\ main_engine /\ main_quits = 1
    /\ NothingDone

-----------------------------------------------------------------------------
(* The merged result without errors: C18 *)

\* run_analysis has returned.
Analysed == pc \in {"calculate_scores", "generate_reports", "points_csv", "done"}

\* C18: when run_analysis has returned and no worker caught an error, the
\* keys of engine_moves are the input positions, each once, and every
\* value is a move or None; so it is with more workers than positions.
C18_AllPositions ==
    (Analysed /\ \A w \in DOMAIN wpc : caught[w] = "") =>
        /\ KeySet(engine_moves) = Items(fens_to_analyze)
        /\ Len(engine_moves) = Len(fens_to_analyze)
        /\ IsInjective(DictKeys(engine_moves))
        /\ \A j \in 1..Len(engine_moves) :
               engine_moves[j][2] \in {<<>>} \cup {<<m>> : m \in EngineMoves}
        /\ Len(fen_chunks) = num_workers

\* C18 witness: two workers shared one position; the second had an empty
\* chunk, the first found no move, and the result is that one entry.
C18_Witness ==
    /\ pc = "calculate_scores"
    /\ num_workers = 2
    /\ fen_chunks = << <<1>>, <<>> >>
    /\ \A w \in DOMAIN wpc : caught[w] = "" /\ quits[w] = 1
    /\ engine_moves = << <<1, <<>> >> >>

\* C18 witness with more positions than workers: three positions, two
\* workers, every search gave a move.
C18_WitnessFull ==
    /\ pc = "calculate_scores"
    /\ num_workers = 2
    /\ Len(fens_to_analyze) = 3
    /\ \A w \in DOMAIN wpc : caught[w] = ""
    /\ \A j \in 1..Len(engine_moves) : engine_moves[j][2] = <<"e2e4">>
    /\ Len(engine_moves) = 3

-----------------------------------------------------------------------------
(* The keys of the result in a run of main: C19 *)

\* C19: in a run of main every key of engine_moves, and of every worker's
\* map, is a position of the loaded suite; no warning row is ever made;
\* the scoring loop makes one detail row for each item it has taken, and
\* when it is over the detail rows are as many as the items of
\* engine_moves, and the details file has them behind its header.
C19_NoWarningRows ==
    /\ KeySet(engine_moves) \subseteq LookupFens(df)
    /\ \A w \in DOMAIN wpc : KeySet(chunk_results[w]) \subseteq LookupFens(df)
    /\ warnings_data = <<>>
    /\ Len(results_data) = score_i
    /\ pc \in {"generate_reports", "points_csv", "done", "raised"} =>
           \/ \E w \in DOMAIN wpc : wpc[w] = "raised"
           \/ /\ Len(results_data) = Len(engine_moves)
              /\ Len(details_csv) = 1 + Len(engine_moves)

\* C19 witness: the name was asked of the engine, the suite had two
\* positions, the second worker completed first and the first worker's
\* search failed; the one item of the result has its detail row, and there
\* is no warning row.
C19_Witness ==
    /\ pc = "generate_reports"
    /\ main_engine
    /\ Len(fens_to_analyze) = 2
    /\ Len(fen_chunks) = 2
    /\ caught[1] = "analyse" /\ caught[2] = ""
    /\ Len(engine_moves) = 1
    /\ Len(results_data) = 1
    /\ results_data[1][2] = fens_to_analyze[2]
    /\ warnings_data = <<>>
    /\ Len(details_csv) = 2

-----------------------------------------------------------------------------
(* The running total: C20 *)

\* C20: before and after every iteration of the scoring loop, and after
\* the sort, total_points is the sum of the values of suite_scores and the
\* sum of the points of the detail rows made so far.
C20_TotalIsSum ==
    /\ total_points = SumSeq([j \in 1..Len(suite_scores) |-> suite_scores[j][2]])
    /\ total_points = SumSeq([j \in 1..Len(results_data) |-> results_data[j][5]])

\* C20 witness: two positions of two suites have earned points, 200 and 7,
\* and the total is 207.
C20_Witness ==
    /\ pc = "calculate_scores"
    /\ score_i = 2
    /\ Len(suite_scores) = 2
    /\ suite_scores[1][2] = 200 /\ suite_scores[2][2] = 7
    /\ Len(results_data) = 2
    /\ total_points = 207

=============================================================================
